---- MODULE Spec2Model ----
(***************************************************************************)
(* The translation relay of the real-time translation room: the Socket.io *)
(* server of src/src/hooks/useDeepgram.ts (lines 314-484), its membership  *)
(* store `users`, the room 'translation-room', the four connection         *)
(* handlers (join, disconnect, update-languages, speech) and the           *)
(* translation collaborator translateText the speech handler awaits.       *)
(*                                                                         *)
(* Node runs every handler to its next await without interleaving, so one  *)
(* action is one handler run up to (and including the issue of) its next   *)
(* awaited translation call, or the continuation after one call returned.  *)
(***************************************************************************)
EXTENDS Integers, Sequences, FiniteSets, TLC

\* ---------------------------------------------------------------- bounds
NumConns == 3
MaxEvents == 4       \* inbound events received (join, update-languages,
                     \* disconnect, speech)
MaxSpeech == 2       \* speech events among them
MaxTranscripts == 2  \* transcripts the speech-to-text session gives a client
MaxMessages == 2     \* translation events a client receives
MaxForced == 1       \* clicks on a message's speak button
MaxClears == 1       \* calls of clearSpokenTexts
MaxChanges == 2      \* changes of the target language on the page
MaxApiCalls == 3     \* requests to the Socket.io API route
MaxEffectRuns == 4   \* runs of the useSocket effect of one hook instance

Conns == 1..NumConns

\* ---------------------------------------------------------------- inputs
\* Language codes the clients send as targetLanguage.
Langs == {"en", "es", "fr"}

\* The 'join' payloads {name, targetLanguage} the clients send. A name is a
\* sequence of tokens; the empty name <<>> is the one the handler replaces by
\* its default.
JoinPayloads ==
  { [name |-> <<"ann">>, targetLanguage |-> "en"],
    [name |-> <<>>,      targetLanguage |-> "es"],
    [name |-> <<"bob">>, targetLanguage |-> "fr"] }

\* Texts are sequences of characters: a spoken text and a whitespace-only one.
Texts == { <<"h", "i">>, <<" ">> }

Whitespace == {" ", "\t", "\n"}

\* ---------------------------------------------------------------- state
VARIABLES
  conn,      \* conn[c]: "none" | "open" | "closed", the socket of connection c
  users,     \* the Map users, in insertion order: sequence of User records
  room,      \* the sockets in the Socket.io room 'translation-room'
  evs,       \* one record per 'speech' event received, in order of receipt
  inbox,     \* inbox[c]: the events emitted to connection c, in emit order
  applied,   \* applied[c]: the payload fields last applied to c by join/update,
             \* and the number of runs of c's disconnect handling
  nEvents,   \* number of inbound events received so far
  escaped,   \* the errors that left a handler uncaught, in order
  \* one browser client (the page, its socket hook and its components)
  clientLanguage,  \* the page's state targetLanguage
  isJoined,        \* isJoined && isConnected of the page
  autoSpeak,       \* the page's state autoSpeak
  transcripts,     \* one record per transcript of the speech-to-text session
  speechOut,       \* the 'speech' events the client has emitted, in order
  messages,        \* incomingTranslations: the translation events received
  spokenMessages,  \* IncomingTranslations' state spokenMessages
  spokenTexts,     \* the cache spokenTexts of the translation utilities
  tts,             \* the speakText / speakTextForced calls that went on to
                   \* request audio
  ttsModule,       \* the copy of the translation utilities that is built
  nClears,         \* number of clearSpokenTexts calls so far
  userName,        \* the page's userName state
  isConnected,     \* useSocket's isConnected state
  effectDue,       \* the page's join effect is scheduled: a dependency changed
  wire,            \* the events the page's socket has emitted, not yet handled
  nChanges,        \* number of target language changes so far
  serverIo,        \* res.socket.server.io is set
  ioServers,       \* number of SocketIOServer instances created
  connHandlers,    \* number of io.on('connection') registrations
  apiCalls,        \* number of requests the API route has handled
  initializedRef,  \* useSocket's initializedRef.current
  hookPc,          \* initializeSocket: "idle", "fetching" (at its await),
                   \* "created" (the socket exists)
  clientSockets,   \* number of sockets the hook instance has created
  effectRuns       \* number of runs of the useSocket effect

settings == <<clientLanguage, isJoined, autoSpeak, ttsModule>>
speaker == <<transcripts, speechOut>>
listener == <<messages, spokenMessages, spokenTexts, tts, nClears>>

client == <<settings, speaker, listener>>

page == <<userName, isConnected, effectDue, wire, nChanges>>

boot == <<serverIo, ioServers, connHandlers, apiCalls, initializedRef, hookPc,
          clientSockets, effectRuns>>

vars == <<conn, users, room, evs, inbox, applied, nEvents, escaped, client,
          page, boot>>

NoPayload == [name |-> <<>>, targetLanguage |-> "-", joined |-> FALSE, closes |-> 0]

\* ---------------------------------------------------------------- helpers
RECURSIVE TrimStart(_)
TrimStart(t) ==
  IF t = <<>> THEN <<>>
  ELSE IF Head(t) \in Whitespace THEN TrimStart(Tail(t)) ELSE t

RECURSIVE TrimEnd(_)
TrimEnd(t) ==
  IF t = <<>> THEN <<>>
  ELSE IF t[Len(t)] \in Whitespace THEN TrimEnd(SubSeq(t, 1, Len(t) - 1)) ELSE t

\* String.prototype.trim
Trim(t) == TrimEnd(TrimStart(t))

\* `User-${socket.id.substring(0, 4)}`
DefaultName(id) == <<"User-", id>>

\* name || `User-...`
NameOrDefault(name, id) == IF name = <<>> THEN DefaultName(id) ELSE name

\* Map.has / Map.get / Map.set / Map.delete on an insertion-ordered Map
UsersHas(us, id) == \E i \in 1..Len(us) : us[i].id = id

UsersGet(us, id) == us[CHOOSE i \in 1..Len(us) : us[i].id = id]

\* (a variant that adds an entry without replacing the one of the same key)
UsersSetAppend(us, u) == Append(us, u)

UsersSet(us, u) ==
  IF UsersHas(us, u.id)
  THEN [i \in 1..Len(us) |-> IF us[i].id = u.id THEN u ELSE us[i]]
  ELSE Append(us, u)

\* (a variant whose delete removes nothing)
UsersDeleteNothing(us, id) == us

UsersDelete(us, id) == SelectSeq(us, LAMBDA u : u.id # id)

UserIds(us) == { us[i].id : i \in 1..Len(us) }

\* (a variant whose roster misses the entry inserted last)
RosterWithoutLast(us) == SubSeq(us, 1, Len(us) - 1)

\* Array.from(users.values()): the roster an event carries, taken from the
\* Map at the emit
Roster(us) == us

\* io.to(targets).emit(msg): every open socket among the targets gets msg
EmitTo(box, targets, msg) ==
  [c \in Conns |->
     IF c \in targets /\ conn[c] = "open" THEN Append(box[c], msg) ELSE box[c]]

\* the Node process runs: no error that ended it has escaped
Serving == \A i \in 1..Len(escaped) : ~escaped[i].fatal

\* ---------------------------------------------------------------- init
\* the relay before any connection
RelayInit ==
  /\ conn = [c \in Conns |-> "none"]
  /\ users = <<>>
  /\ room = {}
  /\ evs = <<>>
  /\ inbox = [c \in Conns |-> <<>>]
  /\ applied = [c \in Conns |-> NoPayload]
  /\ nEvents = 0
  /\ escaped = <<>>

\* a page that has received and spoken nothing yet
ClientIdle ==
  /\ transcripts = <<>>
  /\ speechOut = <<>>
  /\ messages = <<>>
  /\ spokenMessages = {}
  /\ spokenTexts = {}
  /\ tts = <<>>
  /\ nClears = 0

\* a page whose join effect has run on mount and whose socket has emitted
\* nothing
EffectIdle ==
  /\ effectDue = FALSE
  /\ wire = <<>>
  /\ nChanges = 0

\* the API route has been requested and has started the server; the hook
\* has created its socket
Booted ==
  /\ serverIo = TRUE
  /\ ioServers = 1
  /\ connHandlers = 1
  /\ apiCalls = 1
  /\ initializedRef = TRUE
  /\ hookPc = "created"
  /\ clientSockets = 1
  /\ effectRuns = 1

\* the name the join form hands over: it refuses a blank one
\* (UserProfileForm handleSubmit)
FormNames == { <<"a", "n", "n">> }

\* the page after handleJoinRoom, or before it
PageStates ==
  { [isJoined |-> TRUE, userName |-> n] : n \in FormNames }
    \cup { [isJoined |-> FALSE, userName |-> <<>>] }

\* The sources hold two kinds of translation utilities behind the one
\* import path '@/utils/translationUtils': the WebSocket one (part_002, twice)
\* and the streaming one (part_004).
TtsModules == {"websocket", "stream"}

\* the page as it is mounted: useState('es'), useState(false), useState(true)
Init ==
  /\ RelayInit
  /\ clientLanguage = "es"
  /\ isJoined = FALSE
  /\ autoSpeak = TRUE
  /\ ttsModule = "websocket"
  /\ userName = <<>>
  /\ isConnected = FALSE
  /\ EffectIdle
  /\ ClientIdle
  /\ Booted

\* io.on('connection'): the socket exists, its handlers are registered
\* (ids are given in the order of connection)
Connect(c) ==
  /\ Serving
  /\ conn[c] = "none"
  /\ \A d \in Conns : d < c => conn[d] # "none"
  /\ conn' = [conn EXCEPT ![c] = "open"]
  /\ UNCHANGED <<users, room, evs, inbox, applied, nEvents>>
  /\ UNCHANGED <<escaped, client, page, boot>>

\* (a variant that holds a connection's events back while a speech handler
\* awaits a translation)
DispatchesWhenIdle(c) ==
  /\ Serving
  /\ conn[c] = "open"
  /\ \A e \in 1..Len(evs) : evs[e].pc \notin {"await", "stalled"}

\* socket.on(...): the listeners of an open socket run when its event
\* arrives; a handler that awaits has returned to the event loop and holds
\* nothing
Dispatches(c) == Serving /\ conn[c] = "open"

\* (a variant that broadcasts from the socket: to the room but the joiner)
JoinAudienceOthers(rm, id) == rm \ {id}

\* socket.join('translation-room'); io.to('translation-room'): the room the
\* user-joined notice goes to holds the joiner already
JoinAudience(rm, id) == rm \cup {id}

\* the listener of socket.on('join')
HandleJoin(c, p) ==
  /\ Dispatches(c)
  /\ nEvents < MaxEvents
  /\ LET user == [id |-> c,
                  name |-> NameOrDefault(p.name, c),
                  targetLanguage |-> p.targetLanguage]
         us == UsersSet(users, user)
         rm == JoinAudience(room, c)
         joined == [type |-> "user-joined", user |-> user, users |-> Roster(us)]
         list == [type |-> "users-list", users |-> Roster(us)]
     IN /\ users' = us
        /\ room' = rm
        /\ inbox' = EmitTo(EmitTo(inbox, rm, joined), {c}, list)
  /\ applied' = [applied EXCEPT ![c] =
                   [name |-> p.name, targetLanguage |-> p.targetLanguage,
                    joined |-> TRUE, closes |-> applied[c].closes]]
  /\ nEvents' = nEvents + 1
  /\ UNCHANGED <<conn, evs>>
  /\ UNCHANGED <<escaped, client>>

\* socket.on('join'): a join event of connection c arrives
OnJoin(c, p) == HandleJoin(c, p) /\ UNCHANGED <<page, boot>>

\* (a variant that announces the leave without looking the user up)
LeavesRoomAlways(us, id) == TRUE

\* const user = users.get(socket.id); if (user) { ... }
LeavesRoom(us, id) == UsersHas(us, id)

\* socket.on('disconnect'): Socket.io has taken the socket out of its rooms
\* before the handler runs. The handling may run again for a connection
\* that is closed already (a repeated close signal).
OnDisconnect(c) ==
  /\ Dispatches(c) \/ (Serving /\ conn[c] = "closed")
  /\ nEvents < MaxEvents
  /\ nEvents' = nEvents + 1
  /\ conn' = [conn EXCEPT ![c] = "closed"]
  /\ room' = room \ {c}
  /\ IF LeavesRoom(users, c)
     THEN LET us == UsersDelete(users, c)
              left == [type |-> "user-left", userId |-> c, users |-> Roster(us)]
          IN /\ users' = us
             /\ inbox' = EmitTo(inbox, room \ {c}, left)
     ELSE UNCHANGED <<users, inbox>>
  /\ applied' = [applied EXCEPT ![c].closes = @ + 1]
  /\ UNCHANGED evs
  /\ UNCHANGED <<escaped, client, page, boot>>

\* (a variant that sets the language on every record)
WithTargetLanguageAll(us, id, lang) ==
  [i \in 1..Len(us) |-> [us[i] EXCEPT !.targetLanguage = lang]]

\* user.targetLanguage = targetLanguage; users.set(socket.id, user)
WithTargetLanguage(us, id, lang) ==
  UsersSet(us, [UsersGet(us, id) EXCEPT !.targetLanguage = lang])

\* the listener of socket.on('update-languages')
HandleUpdateLanguages(c, lang) ==
  /\ Dispatches(c)
  /\ nEvents < MaxEvents
  /\ nEvents' = nEvents + 1
  /\ IF UsersHas(users, c)
     THEN LET us == WithTargetLanguage(users, c, lang)
              list == [type |-> "users-list", users |-> Roster(us)]
          IN /\ users' = us
             /\ inbox' = EmitTo(inbox, room, list)
             /\ applied' = [applied EXCEPT ![c].targetLanguage = lang]
     ELSE UNCHANGED <<users, inbox, applied>>
  /\ UNCHANGED <<conn, room, evs>>
  /\ UNCHANGED <<escaped, client>>

\* socket.on('update-languages'): an update-languages event of connection c
\* arrives
OnUpdateLanguages(c, lang) == HandleUpdateLanguages(c, lang) /\ UNCHANGED <<page, boot>>

\* an error leaves the listener `handler` of connection c. Nothing in the
\* sources handles 'uncaughtException' or 'unhandledRejection': whether the
\* process ends (fatal) depends on the Node version and on the handlers of
\* the host that runs the route.
Escapes(c, handler, kind) ==
  \E fatal \in BOOLEAN :
    escaped' = Append(escaped, [conn |-> c, handler |-> handler,
                                kind |-> kind, fatal |-> fatal])

\* socket.on('join', ({ name, targetLanguage }) => ...) for an event without
\* payload object: destructuring undefined throws before the first statement
OnJoinNoPayload(c) ==
  /\ Dispatches(c)
  /\ nEvents < MaxEvents
  /\ nEvents' = nEvents + 1
  /\ Escapes(c, "join", "uncaught exception")
  /\ UNCHANGED <<conn, users, room, evs, inbox, applied, client, page, boot>>

\* socket.on('update-languages', ({ targetLanguage }) => ...) for an event
\* without payload object
OnUpdateLanguagesNoPayload(c) ==
  /\ Dispatches(c)
  /\ nEvents < MaxEvents
  /\ nEvents' = nEvents + 1
  /\ Escapes(c, "update-languages", "uncaught exception")
  /\ UNCHANGED <<conn, users, room, evs, inbox, applied, client, page, boot>>

\* socket.on('speech', async (message) => ...) for a message without
\* originalText (or no message): if (!sender || !message.originalText.trim())
\* returns for a connection that is no member and throws a TypeError for a
\* member, which rejects the promise of the async listener
OnSpeechNoText(c) ==
  /\ Dispatches(c)
  /\ nEvents < MaxEvents
  /\ nEvents' = nEvents + 1
  /\ IF UsersHas(users, c)
     THEN Escapes(c, "speech", "unhandled rejection")
     ELSE UNCHANGED escaped
  /\ UNCHANGED <<conn, users, room, evs, inbox, applied, client, page, boot>>

\* ---------------------------------------------------------------- relay
\* The fixed source language: the literal 'en' of the speech handler
SourceLanguage == "en"

\* translateText's result for a call that succeeds: some non-empty text
\* (an empty result makes translateText throw)
Translated(text, lang) == <<lang, ":">> \o text

SeqHas(q, x) == \E i \in 1..Len(q) : q[i] = x

\* (a variant that also translates into the source language)
NeedsTranslationAnyLanguage(user, id) == user.id # id

\* if (user.id !== socket.id && user.targetLanguage !== 'en')
NeedsTranslation(user, id) ==
  user.id # id /\ user.targetLanguage # SourceLanguage

\* (a variant that keeps one entry per member instead of one per language)
SetAddAlways(acc, x) == Append(acc, x)

\* Set.prototype.add: a Set keeps each value once, in the order of first
\* insertion
SetAdd(acc, x) == IF SeqHas(acc, x) THEN acc ELSE Append(acc, x)

\* users.forEach(user => { if (...) targetLanguages.add(user.targetLanguage) })
RECURSIVE AddTargetLanguages(_, _, _)
AddTargetLanguages(us, id, acc) ==
  IF us = <<>> THEN acc
  ELSE AddTargetLanguages(Tail(us), id,
         IF NeedsTranslation(Head(us), id)
         THEN SetAdd(acc, Head(us).targetLanguage)
         ELSE acc)

TargetLanguages(us, id) == AddTargetLanguages(us, id, <<>>)

\* const translations = new Map(): a language without entry maps to <<>>
NoTranslations == [l \in Langs |-> <<>>]

\* (a variant without the || message.originalText fallback)
TextForUserNoFallback(user, text, isFinal, translations) ==
  IF user.targetLanguage # SourceLanguage /\ isFinal
  THEN translations[user.targetLanguage]
  ELSE text

\* translations.get(user.targetLanguage) || message.originalText, behind
\* the test user.targetLanguage !== 'en' && message.isFinal
TextForUser(user, text, isFinal, translations) ==
  IF user.targetLanguage # SourceLanguage /\ isFinal
  THEN IF translations[user.targetLanguage] # <<>>
       THEN translations[user.targetLanguage]
       ELSE text
  ELSE text

\* (a variant that lets a blank text through)
DroppedOnlyNonMember(us, id, text) == ~UsersHas(us, id)

\* (a variant that overlooks a sender missing from the Map)
DroppedOnlyBlank(us, id, text) == Trim(text) = <<>>

\* (a variant that lacks the skip of the sender)
RecipientsWithSender(us, id) == UserIds(us)

\* the users the second users.forEach emits to: if (user.id === socket.id) return
Recipients(us, id) == UserIds(us) \ {id}

\* the 'translation' payload; ev is the index of the speech event it derives
\* from and to the member it was built for (not part of the payload, kept
\* to state the claims)
TranslationMessage(e, ev, user) ==
  [type |-> "translation",
   ev |-> e,
   to |-> user.id,
   userId |-> ev.sender,
   userName |-> ev.senderName,
   originalText |-> ev.text,
   translatedText |-> TextForUser(user, ev.text, ev.isFinal, ev.translations),
   sourceLanguage |-> SourceLanguage,
   targetLanguage |-> user.targetLanguage,
   isFinal |-> ev.isFinal]

\* (a variant that emits each member's payload to the whole room)
RoomChannel(id) == room

\* io.to(user.id): the room named by a socket id holds that socket alone
PrivateChannel(id) == {id}

\* users.forEach(user => ... io.to(user.id).emit('translation', ...)):
\* connection c gets, in the order of the Map, the payload of every
\* recipient whose channel it is in
FanOut(box, e, ev) ==
  [c \in Conns |->
     LET for == SelectSeq(users, LAMBDA u :
                  /\ u.id \in Recipients(users, ev.sender)
                  /\ c \in PrivateChannel(u.id)
                  /\ conn[c] = "open")
     IN box[c] \o [i \in 1..Len(for) |-> TranslationMessage(e, ev, for[i])]]

\* if (!sender || !message.originalText.trim()) return
Dropped(us, id, text) == ~UsersHas(us, id) \/ Trim(text) = <<>>

\* the record of a speech event: the handler's locals and its position.
\*   pc: "dropped" (returned at the guard), "await" (a translation call is
\*   pending), "stalled" (the pending call will never return), "done"
\*   calls: the translateText calls issued so far with their outcome
\*   usersAtStart, usersAtEnd: the Map users when the handler started and
\*   when it ended (kept to state the claims)
NewEvent(c, text, isFinal) ==
  [sender |-> c,
   member |-> UsersHas(users, c),
   senderName |-> IF UsersHas(users, c) THEN UsersGet(users, c).name ELSE <<>>,
   text |-> text,
   isFinal |-> isFinal,
   langs |-> <<>>,
   calls |-> <<>>,
   translations |-> NoTranslations,
   usersAtStart |-> users,
   usersAtEnd |-> users,
   pc |-> "dropped"]

PendingCall(lang) == [lang |-> lang, outcome |-> "pending"]

\* (a variant that translates interim messages too)
AwaitsTranslationAlways(isFinal, langs) == langs # <<>>

\* if (message.isFinal) { for (const targetLang of targetLanguages) ... await:
\* the handler awaits when the message is final and a language is needed
AwaitsTranslation(isFinal, langs) == isFinal /\ langs # <<>>

\* socket.on('speech') up to its first await, or to its end when it awaits
\* nothing (an interim message, or no language to translate into)
OnSpeech(c, text, isFinal) ==
  /\ Dispatches(c)
  /\ Len(evs) < MaxSpeech
  /\ nEvents < MaxEvents
  /\ nEvents' = nEvents + 1
  /\ LET e == Len(evs) + 1
         ev0 == NewEvent(c, text, isFinal)
         langs == TargetLanguages(users, c)
     IN IF Dropped(users, c, text)
        THEN /\ evs' = Append(evs, ev0)
             /\ UNCHANGED inbox
        ELSE IF AwaitsTranslation(isFinal, langs)
        THEN /\ evs' = Append(evs, [ev0 EXCEPT !.langs = langs,
                                      !.calls = <<PendingCall(Head(langs))>>,
                                      !.pc = "await"])
             /\ UNCHANGED inbox
        ELSE LET ev == [ev0 EXCEPT !.langs = langs, !.pc = "done"]
             IN /\ evs' = Append(evs, ev)
                /\ inbox' = FanOut(inbox, e, ev)
  /\ UNCHANGED <<conn, users, room, applied>>
  /\ UNCHANGED <<escaped, client, page, boot>>

\* (a variant whose loop ends at the first call that throws)
LoopStopsOnFailure(ok, n, langs) == ok /\ n < Len(langs)

\* for (const targetLang of targetLanguages) { try { await ... } catch { } }:
\* after the n-th call returned or threw, the loop goes on while a language
\* is left
LoopContinues(ok, n, langs) == n < Len(langs)

\* the awaited translateText call of event e returns (ok) or throws (~ok);
\* the handler runs on: the next call of the loop, or the fan-out
TranslateReturn(e, ok) ==
  /\ Serving
  /\ e \in 1..Len(evs)
  /\ evs[e].pc = "await"
  /\ LET ev == evs[e]
         n == Len(ev.calls)
         lang == ev.calls[n].lang
         calls == [ev.calls EXCEPT ![n].outcome = IF ok THEN "ok" ELSE "failed"]
         tr == IF ok THEN [ev.translations EXCEPT ![lang] = Translated(ev.text, lang)]
               ELSE ev.translations
     IN IF LoopContinues(ok, n, ev.langs)
        THEN /\ evs' = [evs EXCEPT ![e] =
                          [ev EXCEPT !.calls = Append(calls, PendingCall(ev.langs[n + 1])),
                                     !.translations = tr]]
             /\ UNCHANGED inbox
        ELSE LET done == [ev EXCEPT !.calls = calls, !.translations = tr,
                                    !.pc = "done", !.usersAtEnd = users]
             IN /\ evs' = [evs EXCEPT ![e] = done]
                /\ inbox' = FanOut(inbox, e, done)
  /\ UNCHANGED <<conn, users, room, applied, nEvents>>
  /\ UNCHANGED <<escaped, client, page, boot>>

\* the collaborator never answers the pending call of event e: fetch has no
\* timeout, the await never resumes
TranslateStall(e) ==
  /\ Serving
  /\ e \in 1..Len(evs)
  /\ evs[e].pc = "await"
  /\ evs' = [evs EXCEPT ![e].pc = "stalled",
                        ![e].calls[Len(evs[e].calls)].outcome = "stalled"]
  /\ UNCHANGED <<conn, users, room, inbox, applied, nEvents>>
  /\ UNCHANGED <<escaped, client, page, boot>>

Next ==
  \/ \E c \in Conns : Connect(c)
  \/ \E c \in Conns, p \in JoinPayloads : OnJoin(c, p)
  \/ \E c \in Conns : OnDisconnect(c)
  \/ \E c \in Conns, l \in Langs : OnUpdateLanguages(c, l)
  \/ \E c \in Conns, t \in Texts, f \in BOOLEAN : OnSpeech(c, t, f)
  \/ \E c \in Conns : OnJoinNoPayload(c)
  \/ \E c \in Conns : OnUpdateLanguagesNoPayload(c)
  \/ \E c \in Conns : OnSpeechNoText(c)
  \/ \E e \in 1..MaxSpeech, ok \in BOOLEAN : TranslateReturn(e, ok)
  \/ \E e \in 1..MaxSpeech : TranslateStall(e)

Spec == Init /\ [][Next]_vars

\* A liveness specification: the event loop resumes a speech handler when
\* its awaited translation call completes, and a call that is not stalled
\* completes.
FairSpec ==
  /\ Init /\ [][Next]_vars
  /\ \A e \in 1..MaxSpeech : WF_vars(\E ok \in BOOLEAN : TranslateReturn(e, ok))

\* ---------------------------------------------------------------- client
\* One browser client: the page's transcript handler (handleTranscriptUpdate),
\* the socket hook's sendSpeech and 'translation' listener, and the
\* auto-speak effect of IncomingTranslations with speakText's cache.

relay == <<conn, users, room, evs, inbox, applied, nEvents, escaped>>

\* the texts the relay accepts
NonBlankTexts == { t \in Texts : Trim(t) # <<>> }

\* the 'translation' events the relay sends a client of language l: from
\* another member, carrying the original text or its translation into l
IncomingMessagesIn(l) ==
  { [userId |-> "peer", originalText |-> t, translatedText |-> tt,
     targetLanguage |-> l, isFinal |-> f] :
      t \in NonBlankTexts,
      tt \in NonBlankTexts \cup { Translated(u, l) : u \in NonBlankTexts },
      f \in BOOLEAN }

IncomingMessages == UNION { IncomingMessagesIn(l) : l \in Langs }

\* the page of a client that joins with any language, auto-speak on or off
ClientInit ==
  /\ RelayInit
  /\ clientLanguage \in Langs
  /\ \E ps \in PageStates : isJoined = ps.isJoined /\ userName = ps.userName
  /\ isConnected \in BOOLEAN
  /\ autoSpeak \in BOOLEAN
  /\ ttsModule \in TtsModules
  /\ EffectIdle
  /\ ClientIdle
  /\ Booted

\* sendSpeech: if (!socketRef.current || !isConnected || !text.trim()) return,
\* behind the page's if (isJoined && isConnected)
\* (transcript is the index of the transcript the event was emitted for:
\* not part of the payload, kept to state the claims)
SendSpeech(out, i, text, isFinal) ==
  IF isJoined /\ isConnected /\ Trim(text) # <<>>
  THEN Append(out, [transcript |-> i, originalText |-> text,
                    isFinal |-> isFinal])
  ELSE out

\* if (sourceLanguage !== targetLanguage) { ... await translateText(...) }
TranslatesForDisplay(isFinal) == SourceLanguage # clientLanguage

\* the speech-to-text session delivers a transcript: its onmessage calls
\* handleTranscriptUpdate for a non-blank one, which runs to its await or,
\* without a translation to make, to its end
OnTranscript(text, isFinal) ==
  /\ Len(transcripts) < MaxTranscripts
  /\ LET t0 == [text |-> text, isFinal |-> isFinal, translated |-> FALSE,
                pc |-> "dropped"]
     IN IF Trim(text) = <<>>
        THEN /\ transcripts' = Append(transcripts, t0)
             /\ UNCHANGED speechOut
        ELSE IF TranslatesForDisplay(isFinal)
        THEN /\ transcripts' = Append(transcripts,
                                  [t0 EXCEPT !.translated = TRUE, !.pc = "await"])
             /\ UNCHANGED speechOut
        ELSE /\ transcripts' = Append(transcripts, [t0 EXCEPT !.pc = "done"])
             /\ speechOut' = SendSpeech(speechOut, Len(transcripts) + 1,
                                     text, isFinal)
  /\ UNCHANGED <<settings, listener>>
  /\ UNCHANGED <<relay, page, boot>>

\* the awaited translateText call of transcript i returns (ok) or throws:
\* the handler goes on to sendSpeech, or to its catch
DisplayTranslateReturn(i, ok) ==
  /\ i \in 1..Len(transcripts)
  /\ transcripts[i].pc = "await"
  /\ IF ok
     THEN /\ transcripts' = [transcripts EXCEPT ![i].pc = "done"]
          /\ speechOut' = SendSpeech(speechOut, i, transcripts[i].text,
                                     transcripts[i].isFinal)
     ELSE /\ transcripts' = [transcripts EXCEPT ![i].pc = "failed"]
          /\ UNCHANGED speechOut
  /\ UNCHANGED <<settings, listener>>
  /\ UNCHANGED <<relay, page, boot>>

\* the tests of the auto-speak effect on the latest message
AutoSpeaks(msg) ==
  /\ autoSpeak
  /\ msg.userId # "me"
  /\ msg.isFinal
  /\ Trim(msg.translatedText) # <<>>
  /\ msg.translatedText \notin spokenMessages

\* the key of a text in the cache: the text (part_002), or
\* `${text}_${language}` (part_004)
CacheKey(text, language) ==
  [text |-> text,
   language |-> IF ttsModule = "stream" THEN language ELSE "any"]

\* speakText / speakTextForced up to the first await: the call goes on to
\* request audio unless the text is blank (a test the WebSocket copy has) or,
\* for speakText, its key is in the cache
RequestsAudio(text, language, forced) ==
  /\ ttsModule = "websocket" => Trim(text) # <<>>
  /\ forced \/ CacheKey(text, language) \notin spokenTexts

\* spokenTexts.add(text) before the first await of speakText (part_002:130)
CachesAtCall(forced) == ttsModule = "websocket" /\ ~forced

\* a call that requests audio; period is the number of clearSpokenTexts
\* calls before it, played is hasStartedPlaying and playedIn the number of
\* clearSpokenTexts calls before its first chunk was played
SpeakCall(text, language, isFinal, forced) ==
  [text |-> text, language |-> language, isFinal |-> isFinal,
   forced |-> forced, period |-> nClears, played |-> FALSE, playedIn |-> 0,
   pc |-> "requested"]

\* socket.on('translation'): the page appends the message and the
\* auto-speak effect of IncomingTranslations runs on it. A speakText call
\* that skips the text resolves at once and .then marks the message spoken.
OnTranslation(msg) ==
  /\ msg.targetLanguage = clientLanguage
  /\ Len(messages) < MaxMessages
  /\ messages' = Append(messages, msg)
  /\ IF AutoSpeaks(msg)
     THEN IF RequestsAudio(msg.translatedText, msg.targetLanguage, FALSE)
          THEN /\ spokenTexts' =
                    IF CachesAtCall(FALSE)
                    THEN spokenTexts \cup
                           {CacheKey(msg.translatedText, msg.targetLanguage)}
                    ELSE spokenTexts
               /\ tts' = Append(tts, SpeakCall(msg.translatedText,
                                               msg.targetLanguage,
                                               msg.isFinal, FALSE))
               /\ UNCHANGED spokenMessages
          ELSE /\ spokenMessages' = spokenMessages \cup {msg.translatedText}
               /\ UNCHANGED <<spokenTexts, tts>>
     ELSE UNCHANGED <<spokenMessages, spokenTexts, tts>>
  /\ UNCHANGED <<settings, speaker, nClears>>
  /\ UNCHANGED <<relay, page, boot>>

\* handleSpeak of IncomingTranslations: the speak button of message i calls
\* speakTextForced, which never looks at the cache
OnSpeakButton(i) ==
  /\ i \in 1..Len(messages)
  /\ Cardinality({k \in 1..Len(tts) : tts[k].forced}) < MaxForced
  /\ Trim(messages[i].translatedText) # <<>>
  /\ RequestsAudio(messages[i].translatedText, messages[i].targetLanguage, TRUE)
  /\ tts' = Append(tts, SpeakCall(messages[i].translatedText,
                                  messages[i].targetLanguage,
                                  messages[i].isFinal, TRUE))
  /\ UNCHANGED <<settings, speaker, messages, spokenMessages, spokenTexts,
                 nClears>>
  /\ UNCHANGED <<relay, page, boot>>

\* an audio chunk of call k arrives and is played: playNextChunk sets
\* hasStartedPlaying (part_002:156-178), audio.play() (part_004:120-124)
AudioChunk(k) ==
  /\ k \in 1..Len(tts)
  /\ tts[k].pc = "requested"
  /\ ~tts[k].played
  /\ tts' = [tts EXCEPT ![k].played = TRUE, ![k].playedIn = nClears]
  /\ UNCHANGED <<settings, speaker, messages, spokenMessages, spokenTexts,
                 nClears>>
  /\ UNCHANGED <<relay, page, boot>>

\* the ways a call ends: the service reports 'done' (the stream is read to
\* its end), the socket closes, or an error (no API key, a TTS error
\* message, a socket or fetch error)
TtsOutcomes == {"done", "closed", "error"}

\* the call's promise resolves: on 'done'; on close for speakText of the
\* WebSocket copy (resolve(), part_002:262-264), and for speakTextForced
\* only once audio has played (part_002:412-416, where a 'done' resolves)
Resolves(call, how) ==
  \/ how = "done"
  \/ how = "closed" /\ (call.forced => call.played)

\* spokenTexts.add when the call ends: on 'done' after audio has played
\* (part_002:242-244), or after the stream has been read (part_004:139-141)
CachesAtEnd(call, how) ==
  /\ ~call.forced
  /\ how = "done"
  /\ ttsModule = "websocket" => call.played

\* call k ends. Resolved, the .then of the auto-speak effect marks the
\* message spoken; rejected, the .catch logs.
SpeakSettled(k, how) ==
  /\ k \in 1..Len(tts)
  /\ tts[k].pc = "requested"
  /\ ttsModule = "stream" => how # "closed"
  /\ tts' = [tts EXCEPT ![k].pc = IF Resolves(tts[k], how)
                                  THEN "resolved" ELSE "rejected"]
  /\ spokenTexts' = IF CachesAtEnd(tts[k], how)
                    THEN spokenTexts \cup {CacheKey(tts[k].text, tts[k].language)}
                    ELSE spokenTexts
  /\ spokenMessages' = IF Resolves(tts[k], how) /\ ~tts[k].forced
                       THEN spokenMessages \cup {tts[k].text}
                       ELSE spokenMessages
  /\ UNCHANGED <<settings, speaker, messages, nClears>>
  /\ UNCHANGED <<relay, page, boot>>

\* clearSpokenTexts: the page calls it when listening stops and on Clear
ClearSpokenTexts ==
  /\ nClears < MaxClears
  /\ nClears' = nClears + 1
  /\ spokenTexts' = {}
  /\ UNCHANGED <<settings, speaker, messages, spokenMessages, tts>>
  /\ UNCHANGED <<relay, page, boot>>

ClientNext ==
  \/ \E t \in Texts, f \in BOOLEAN : OnTranscript(t, f)
  \/ \E i \in 1..MaxTranscripts, ok \in BOOLEAN : DisplayTranslateReturn(i, ok)
  \/ \E msg \in IncomingMessages : OnTranslation(msg)
  \/ \E k \in 1..MaxMessages, how \in TtsOutcomes : SpeakSettled(k, how)

ClientSpec == ClientInit /\ [][ClientNext]_vars

\* The listening side alone: incoming messages, the auto-speak effect, the
\* speak button, the audio of the calls and the cache.
SpeechInit ==
  /\ RelayInit
  /\ clientLanguage \in Langs
  /\ isJoined = TRUE
  /\ userName \in FormNames
  /\ isConnected = TRUE
  /\ autoSpeak = TRUE
  /\ ttsModule \in TtsModules
  /\ EffectIdle
  /\ ClientIdle
  /\ Booted

SpeechNext ==
  \/ \E msg \in IncomingMessages : OnTranslation(msg)
  \/ \E i \in 1..MaxMessages : OnSpeakButton(i)
  \/ \E k \in 1..(MaxMessages + MaxForced) : AudioChunk(k)
  \/ \E k \in 1..(MaxMessages + MaxForced), how \in TtsOutcomes :
       SpeakSettled(k, how)
  \/ ClearSpokenTexts

SpeechSpec == SpeechInit /\ [][SpeechNext]_vars

\* ----------------------------------------------------------------- page
\* The page and its socket together with the relay: the page is the client
\* of the first connection; what it emits travels on the wire and is handled
\* by the relay's listeners in the order of emission.
PageConn == 1

JoinEmit(name, lang) ==
  [type |-> "join", payload |-> [name |-> name, targetLanguage |-> lang]]

UpdateEmit(lang) ==
  [type |-> "update-languages", payload |-> [name |-> <<>>, targetLanguage |-> lang]]

\* joinRoom / updateLanguages of useSocket:
\* if (!socketRef.current || !isConnected) return; socket.emit(...)
Emit(w, connected, e) == IF connected THEN Append(w, e) ELSE w

\* the useSocket effect has created the socket and the relay's
\* io.on('connection') ran for it
PageOpens ==
  /\ Connect(PageConn)

\* socket.on('connect'): setIsConnected(true). joinRoom is rebuilt
\* (useCallback [isConnected]), so the join effect is scheduled.
OnConnected ==
  /\ conn[PageConn] = "open"
  /\ ~isConnected
  /\ ~effectDue
  /\ isConnected' = TRUE
  /\ effectDue' = TRUE
  /\ UNCHANGED <<userName, wire, nChanges>>
  /\ UNCHANGED <<relay, client, boot>>

\* handleJoinRoom, called by the join form (shown while !isJoined): three
\* state updates, then joinRoom; the state updates schedule the join effect
HandleJoinRoom(name, tgtLang) ==
  /\ ~isJoined
  /\ ~effectDue
  /\ userName' = name
  /\ clientLanguage' = tgtLang
  /\ isJoined' = TRUE
  /\ wire' = Emit(wire, isConnected, JoinEmit(name, tgtLang))
  /\ effectDue' = TRUE
  /\ UNCHANGED <<autoSpeak, ttsModule, speaker, listener, isConnected, nChanges>>
  /\ UNCHANGED <<relay, boot>>

\* if (isJoined && isConnected && userName)
EffectJoins == isJoined /\ isConnected /\ userName # <<>>

\* the join effect runs after the render that changed one of its
\* dependencies [isJoined, isConnected, userName, targetLanguage, joinRoom]
JoinEffect ==
  /\ effectDue
  /\ effectDue' = FALSE
  /\ wire' = IF EffectJoins
             THEN Emit(wire, isConnected, JoinEmit(userName, clientLanguage))
             ELSE wire
  /\ UNCHANGED <<userName, isConnected, nChanges>>
  /\ UNCHANGED <<relay, client, boot>>

\* handleTargetLanguageChange, called by the language select of the joined
\* page with another language: setTargetLanguage, then updateLanguages if
\* joined and connected; the new targetLanguage schedules the join effect
HandleTargetLanguageChange(language) ==
  /\ isJoined
  /\ ~effectDue
  /\ language # clientLanguage
  /\ nChanges < MaxChanges
  /\ nChanges' = nChanges + 1
  /\ clientLanguage' = language
  /\ wire' = Emit(wire, isJoined /\ isConnected, UpdateEmit(language))
  /\ effectDue' = TRUE
  /\ UNCHANGED <<isJoined, autoSpeak, ttsModule, speaker, listener, userName,
                 isConnected>>
  /\ UNCHANGED <<relay, boot>>

\* the relay receives the page's next event, a join
DeliverJoin ==
  /\ wire # <<>>
  /\ Head(wire).type = "join"
  /\ HandleJoin(PageConn, Head(wire).payload)
  /\ wire' = Tail(wire)
  /\ UNCHANGED <<userName, isConnected, effectDue, nChanges, boot>>

\* the relay receives the page's next event, an update-languages
DeliverUpdate ==
  /\ wire # <<>>
  /\ Head(wire).type = "update-languages"
  /\ HandleUpdateLanguages(PageConn, Head(wire).payload.targetLanguage)
  /\ wire' = Tail(wire)
  /\ UNCHANGED <<userName, isConnected, effectDue, nChanges, boot>>

PageNext ==
  \/ PageOpens
  \/ OnConnected
  \/ \E n \in FormNames, l \in Langs : HandleJoinRoom(n, l)
  \/ JoinEffect
  \/ \E l \in Langs : HandleTargetLanguageChange(l)
  \/ DeliverJoin
  \/ DeliverUpdate

PageSpec == Init /\ [][PageNext]_vars

\* ------------------------------------------------------------ start-up
\* The API route that starts the relay and the hook that creates the
\* client's socket, from a server process that has served nothing yet.
BootInit ==
  /\ RelayInit
  /\ clientLanguage = "es"
  /\ isJoined = FALSE
  /\ autoSpeak = TRUE
  /\ ttsModule = "websocket"
  /\ userName = <<>>
  /\ isConnected = FALSE
  /\ EffectIdle
  /\ ClientIdle
  /\ serverIo = FALSE
  /\ ioServers = 0
  /\ connHandlers = 0
  /\ apiCalls = 0
  /\ initializedRef = FALSE
  /\ hookPc = "idle"
  /\ clientSockets = 0
  /\ effectRuns = 0

\* (a variant of the handler without its guard)
AlreadyRunningNever(io) == FALSE

\* if (res.socket.server.io) { res.end(); return }
AlreadyRunning(io) == io

\* handler of the API route, requested by any client: it has no await, so
\* the test and res.socket.server.io = io are one step
ApiHandler ==
  /\ apiCalls < MaxApiCalls
  /\ apiCalls' = apiCalls + 1
  /\ IF AlreadyRunning(serverIo)
     THEN UNCHANGED <<serverIo, ioServers, connHandlers>>
     ELSE /\ ioServers' = ioServers + 1
          /\ serverIo' = TRUE
          /\ connHandlers' = connHandlers + 1
  /\ UNCHANGED <<initializedRef, hookPc, clientSockets, effectRuns>>
  /\ UNCHANGED <<relay, client, page>>

\* the cleanup of the useSocket effect: initializeSocket is async, so what
\* the effect holds is a Promise and typeof cleanup === 'function' is false
CleanupCallable == FALSE

\* the useSocket effect runs (on mount, and again whenever initializeSocket
\* is rebuilt: useCallback [options], a new object at every render); before
\* a re-run the cleanup of the previous run is called. initializeSocket
\* returns at once if (initializedRef.current), else it sets the ref and
\* goes to its await fetch('/api/socketio').
UseSocketEffect ==
  /\ effectRuns < MaxEffectRuns
  /\ effectRuns' = effectRuns + 1
  /\ LET reset == effectRuns > 0 /\ CleanupCallable /\ hookPc = "created"
         ref == IF reset THEN FALSE ELSE initializedRef
     IN IF ref
        THEN UNCHANGED <<initializedRef, hookPc>>
        ELSE /\ initializedRef' = TRUE
             /\ hookPc' = "fetching"
  /\ UNCHANGED <<serverIo, ioServers, connHandlers, apiCalls, clientSockets>>
  /\ UNCHANGED <<relay, client, page>>

\* the awaited fetch returns (ok: the API route has answered, so the server
\* runs) or throws, which is caught and logged; the socket is created
\* either way: io({ path: '/api/socketio' })
FetchReturns(ok) ==
  /\ hookPc = "fetching"
  /\ ok => serverIo
  /\ hookPc' = "created"
  /\ clientSockets' = clientSockets + 1
  /\ UNCHANGED <<serverIo, ioServers, connHandlers, apiCalls, initializedRef,
                 effectRuns>>
  /\ UNCHANGED <<relay, client, page>>

\* a socket connects to the running server (the first connection is the
\* hook's socket); every registered 'connection' handler runs for it
SocketConnects(c) ==
  /\ serverIo
  /\ c = PageConn => hookPc = "created"
  /\ Connect(c)

\* the listeners a socket has per event: each 'connection' handler
\* registers one (socket.on('join', ...), ...)
ListenersPerEvent == connHandlers

BootNext ==
  \/ ApiHandler
  \/ UseSocketEffect
  \/ \E ok \in BOOLEAN : FetchReturns(ok)
  \/ \E c \in Conns : SocketConnects(c)
  \/ OnConnected
  \/ JoinEffect

BootSpec == BootInit /\ [][BootNext]_vars

\* ---------------------------------------------------------------- claims
Events == 1..Len(evs)

\* the positions in connection c's inbox of the translation events derived
\* from speech event e
Derived(c, e) ==
  { i \in 1..Len(inbox[c]) :
      inbox[c][i].type = "translation" /\ inbox[c][i].ev = e }

Accepted(e) == evs[e].pc # "dropped"

Ended(e) == evs[e].pc \in {"done", "dropped"}

MembersAtStart(e) == UserIds(evs[e].usersAtStart)

MembersAtEnd(e) == UserIds(evs[e].usersAtEnd)

\* C1 as stated: for every speech event sent by a joined member, once it has
\* been handled each member other than the sender has received exactly one
\* translation event derived from it, and the sender none.
C1_EverySpeechEvent ==
  \A e \in Events :
    (evs[e].member /\ Ended(e)) =>
      \A c \in Conns :
        Cardinality(Derived(c, e)) =
          IF c \in MembersAtEnd(e) \ {evs[e].sender} THEN 1 ELSE 0

\* C1 amended: a speech event with non-blank text from a joined member, once
\* its handler has completed, has been delivered exactly once to each
\* connection that was a member other than the sender when the handler
\* completed, and to nobody else (never to the sender); before that it has
\* been delivered to nobody.
C1_FanOutComplete ==
  \A e \in Events :
    /\ (evs[e].member /\ Trim(evs[e].text) # <<>>) => Accepted(e)
    /\ \A c \in Conns :
         Cardinality(Derived(c, e)) =
           IF evs[e].pc = "done" /\ c \in MembersAtEnd(e) \ {evs[e].sender}
           THEN 1 ELSE 0

\* a final event was delivered to a member that joined while its translation
\* call was pending, and the sender is still a member
C1_Witness ==
  \E e \in Events :
    /\ evs[e].pc = "done" /\ evs[e].isFinal
    /\ evs[e].sender \in MembersAtEnd(e)
    /\ \E c \in MembersAtEnd(e) \ MembersAtStart(e) :
         Cardinality(Derived(c, e)) = 1

\* C2: per-(sender, recipient) ordering: in every inbox the translation
\* events naming one sender appear in the order of the speech events they
\* derive from.
C2_SenderOrder ==
  \A c \in Conns :
    \A i, j \in 1..Len(inbox[c]) :
      ( /\ i < j
        /\ inbox[c][i].type = "translation"
        /\ inbox[c][j].type = "translation"
        /\ inbox[c][i].userId = inbox[c][j].userId )
      => inbox[c][i].ev < inbox[c][j].ev

\* the non-source target languages among the members other than the sender
\* when speech event e was received
NeededLanguages(e) ==
  { evs[e].usersAtStart[i].targetLanguage : i \in
      { k \in 1..Len(evs[e].usersAtStart) :
          evs[e].usersAtStart[k].id # evs[e].sender } } \ {"en"}

CalledLanguages(e) == { evs[e].calls[i].lang : i \in 1..Len(evs[e].calls) }

\* the languages of the calls of event e that ended with the given outcome
CallsEnded(e, outcome) ==
  { evs[e].calls[i].lang : i \in
      { k \in 1..Len(evs[e].calls) : evs[e].calls[k].outcome = outcome } }

\* the members other than the sender, with the given target language, when
\* the handler of event e ended
RecipientsWanting(e, lang) ==
  { evs[e].usersAtEnd[i].id : i \in
      { k \in 1..Len(evs[e].usersAtEnd) :
          /\ evs[e].usersAtEnd[k].id # evs[e].sender
          /\ evs[e].usersAtEnd[k].targetLanguage = lang } }

\* C3: for one final speech event at most one translation call is issued per
\* distinct non-source target language among the members other than the
\* sender, however many members share it; a completed final event has issued
\* exactly one call per such language, and no call goes to another language.
C3_OneCallPerLanguage ==
  \A e \in Events :
    /\ \A i, j \in 1..Len(evs[e].calls) :
         i # j => evs[e].calls[i].lang # evs[e].calls[j].lang
    /\ CalledLanguages(e) \subseteq NeededLanguages(e)
    /\ (evs[e].pc = "done" /\ evs[e].isFinal) =>
         /\ CalledLanguages(e) = NeededLanguages(e)
         /\ Len(evs[e].calls) = Cardinality(NeededLanguages(e))

\* a completed final event with two members other than the sender sharing
\* one target language, and a single call
C3_Witness ==
  \E e \in Events :
    /\ evs[e].pc = "done" /\ evs[e].isFinal
    /\ Len(evs[e].calls) = 1
    /\ \E i, j \in 1..Len(evs[e].usersAtStart) :
         /\ i # j
         /\ evs[e].usersAtStart[i].id # evs[e].sender
         /\ evs[e].usersAtStart[j].id # evs[e].sender
         /\ evs[e].usersAtStart[i].targetLanguage = evs[e].usersAtStart[j].targetLanguage
         /\ evs[e].usersAtStart[i].targetLanguage # "en"

\* what C4 says of an interim event e: no translation call, and one
\* translation event per member other than the sender, with translatedText =
\* originalText, that member's targetLanguage and isFinal = false
InterimRelayed(e) ==
  /\ evs[e].calls = <<>>
  /\ \A l \in Langs : \A c \in RecipientsWanting(e, l) :
       /\ Cardinality(Derived(c, e)) = 1
       /\ \A i \in Derived(c, e) :
            /\ inbox[c][i].originalText = evs[e].text
            /\ inbox[c][i].translatedText = evs[e].text
            /\ inbox[c][i].targetLanguage = l
            /\ inbox[c][i].isFinal = FALSE

\* C4 as stated: every interim speech event of a joined member causes no
\* translation call and is relayed untranslated to every other member.
C4_EveryInterim ==
  \A e \in Events :
    (evs[e].member /\ ~evs[e].isFinal) => InterimRelayed(e)

\* C4 amended: an interim speech event with non-blank text from a joined member
\* causes no translation call, and every member other than the sender
\* receives one translation event with translatedText = originalText,
\* targetLanguage = that member's own targetLanguage and isFinal = false.
C4_Interim ==
  \A e \in Events :
    (evs[e].member /\ Trim(evs[e].text) # <<>> /\ ~evs[e].isFinal) =>
      /\ evs[e].pc = "done"
      /\ evs[e].usersAtEnd = evs[e].usersAtStart
      /\ InterimRelayed(e)

\* an interim event was delivered to a member whose target is not the source
\* language
C4_Witness ==
  \E e \in Events :
    /\ Accepted(e) /\ ~evs[e].isFinal
    /\ \E c \in RecipientsWanting(e, "es") : Derived(c, e) # {}

\* C5: a member whose targetLanguage is the source language 'en' never causes
\* a translation call (no call goes into 'en', and a room whose other members
\* all target 'en' causes none), and every translation event it receives has
\* translatedText = originalText.
C5_SelfLanguage ==
  \A e \in Events :
    /\ "en" \notin CalledLanguages(e)
    /\ (\A i \in 1..Len(evs[e].usersAtStart) :
          evs[e].usersAtStart[i].id # evs[e].sender
            => evs[e].usersAtStart[i].targetLanguage = "en")
         => evs[e].calls = <<>>
    /\ \A c \in RecipientsWanting(e, "en") : \A i \in Derived(c, e) :
         /\ inbox[c][i].translatedText = evs[e].text
         /\ inbox[c][i].originalText = evs[e].text

\* a final event was delivered to an 'en' member while a call into another
\* member's language was made for it
C5_Witness ==
  \E e \in Events :
    /\ evs[e].pc = "done" /\ evs[e].isFinal
    /\ evs[e].calls # <<>>
    /\ \E c \in RecipientsWanting(e, "en") : Derived(c, e) # {}

MessageTypes == {"translation", "user-joined", "user-left", "users-list"}

\* C6: when the translation call into L failed for a final speech event, every
\* member other than the sender whose targetLanguage is L has, once the
\* handler completed, received exactly one translation event for it, with
\* translatedText = originalText; nothing but the four event types of the
\* channel is ever delivered (no error message).
C6_Degradation ==
  /\ \A c \in Conns : \A i \in 1..Len(inbox[c]) : inbox[c][i].type \in MessageTypes
  /\ \A e \in Events :
       evs[e].pc = "done" =>
         \A l \in CallsEnded(e, "failed") : \A c \in RecipientsWanting(e, l) :
           /\ Cardinality(Derived(c, e)) = 1
           /\ \A i \in Derived(c, e) :
                /\ inbox[c][i].translatedText = evs[e].text
                /\ inbox[c][i].originalText = evs[e].text
                /\ inbox[c][i].targetLanguage = l

\* a completed final event whose only call failed, delivered to a member
\* targeting the failed language
C6_Witness ==
  \E e \in Events :
    /\ evs[e].pc = "done"
    /\ \E l \in CallsEnded(e, "failed") : \E c \in RecipientsWanting(e, l) :
         Derived(c, e) # {}

\* C7: failure isolation per language: a failed call into L1 does not keep
\* the call into another needed language from being issued (the next call is
\* issued in the step in which the failure is caught), and once the handler
\* completed the members targeting a language L2 whose call succeeded have
\* received the L2 translation.
C7_Isolation ==
  \A e \in Events :
    /\ \A i \in 1..Len(evs[e].calls) :
         (evs[e].calls[i].outcome = "failed" /\ i < Cardinality(NeededLanguages(e)))
           => Len(evs[e].calls) > i
    /\ (evs[e].pc = "done" /\ CallsEnded(e, "failed") # {}) =>
         /\ CalledLanguages(e) = NeededLanguages(e)
         /\ \A l \in CallsEnded(e, "ok") : \A c \in RecipientsWanting(e, l) :
              /\ Cardinality(Derived(c, e)) = 1
              /\ \A i \in Derived(c, e) :
                   inbox[c][i].translatedText = Translated(evs[e].text, l)

\* a completed final event whose first call failed and whose second call
\* succeeded, delivered to a member targeting the second language
C7_Witness ==
  \E e \in Events :
    /\ evs[e].pc = "done"
    /\ Len(evs[e].calls) = 2
    /\ evs[e].calls[1].outcome = "failed"
    /\ evs[e].calls[2].outcome = "ok"
    /\ \E c \in RecipientsWanting(e, evs[e].calls[2].lang) : Derived(c, e) # {}

\* C8: liveness under a stalled collaborator: every final speech event
\* accepted from a joined member is eventually delivered to every other
\* member that stays joined, also when one of its translation calls never
\* returns.
C8_StalledCallLiveness ==
  \A e \in 1..MaxSpeech :
    [](( /\ e \in Events
         /\ evs[e].pc \in {"await", "stalled"} )
       => <>( /\ e \in Events
              /\ \A c \in UserIds(users) \ {evs[e].sender} : Derived(c, e) # {} ))

\* C9: a speech event from a connection that is not a current member is
\* dropped in the step that receives it: no translation call, no event
\* emitted to anyone, no change of the membership store or the room; and a
\* dropped event stays dropped, nothing is ever emitted for it.
C9_NonMemberDropped ==
  [][ /\ \A e \in 1..Len(evs') :
           (e > Len(evs) /\ ~UsersHas(users, evs'[e].sender)) =>
             /\ ~evs'[e].member
             /\ evs'[e].pc = "dropped"
             /\ evs'[e].calls = <<>>
             /\ inbox' = inbox
             /\ users' = users
             /\ room' = room
      /\ \A e \in Events :
           ~evs[e].member =>
             /\ evs'[e] = evs[e]
             /\ \A c \in Conns :
                  \A i \in 1..Len(inbox'[c]) :
                    inbox'[c][i].type = "translation" => inbox'[c][i].ev # e
    ]_vars

\* a non-blank speech event from a connection that never joined was dropped
\* while the room had a member that could have received it
C9_Witness ==
  \E e \in Events :
    /\ ~evs[e].member
    /\ Trim(evs[e].text) # <<>>
    /\ evs[e].pc = "dropped"
    /\ evs[e].usersAtStart # <<>>
    /\ conn[evs[e].sender] = "open"

\* C10: membership exclusivity: the store holds at most one participant per
\* connection id, and a stored participant's targetLanguage and name are
\* those of the most recent join or update-languages applied to its id (an
\* empty name in the join payload being replaced by the default name).
C10_Exclusivity ==
  /\ \A i, j \in 1..Len(users) : i # j => users[i].id # users[j].id
  /\ \A i \in 1..Len(users) :
       LET a == applied[users[i].id]
       IN /\ a.joined
          /\ users[i].targetLanguage = a.targetLanguage
          /\ a.name # <<>> => users[i].name = a.name
          /\ a.name = <<>> => users[i].name = <<"User-", users[i].id>>

\* a member that joined as "ann" with target 'en' and then changed its target
\* language to 'fr', beside another member
C10_Witness ==
  \E c \in UserIds(users) :
    /\ applied[c].name = <<"ann">>
    /\ applied[c].targetLanguage = "fr"
    /\ UsersGet(users, c).targetLanguage = "fr"
    /\ Len(users) >= 2

\* the user-left notices for connection d that connection c has received
LeftNotices(c, d) ==
  { i \in 1..Len(inbox[c]) :
      inbox[c][i].type = "user-left" /\ inbox[c][i].userId = d }

\* the roster-change events all connections have received
RosterEvents(box) ==
  [c \in Conns |-> SelectSeq(box[c], LAMBDA m : m.type # "translation")]

\* C11: idempotent teardown. A run of the disconnect handling for a
\* connection that is closed already emits no roster event and leaves the
\* membership store and the room as they were; the first run for a joined
\* connection gives every other member one user-left notice; and no
\* connection ever holds more than one user-left notice for the same id.
C11_IdempotentTeardown ==
  /\ [](\A c, d \in Conns : Cardinality(LeftNotices(c, d)) <= 1)
  /\ [][\A d \in Conns : OnDisconnect(d) =>
          IF conn[d] = "closed"
          THEN /\ users' = users
               /\ room' = room
               /\ RosterEvents(inbox') = RosterEvents(inbox)
          ELSE \A c \in Conns \ {d} :
                 Cardinality(LeftNotices(c, d)') =
                   IF UsersHas(users, d) /\ UsersHas(users, c) THEN 1 ELSE 0
       ]_vars

\* a joined connection whose disconnect handling has run twice, with a
\* member left in the room that holds its single user-left notice
C11_Witness ==
  \E c, d \in Conns :
    /\ applied[d].joined /\ applied[d].closes = 2
    /\ UsersHas(users, c)
    /\ Cardinality(LeftNotices(c, d)) = 1

\* C12: no dangling or resurrected members. Every entry of the membership
\* store (and every socket of the room) belongs to an open connection; the
\* step that closes a connection removes its entry; and the entry of a
\* closed connection never comes back, whatever handlers are still awaiting
\* translations.
C12_NoDanglingMembers ==
  /\ [](\A c \in UserIds(users) \cup room : conn[c] = "open")
  /\ [][\A c \in Conns :
          /\ (conn[c] = "open" /\ conn'[c] = "closed") => ~UsersHas(users', c)
          /\ conn[c] = "closed" => (conn'[c] = "closed" /\ ~UsersHas(users', c))
       ]_vars

\* a member closed while a speech handler (its own or another member's)
\* awaited a translation, and the handler has completed since
C12_Witness ==
  \E e \in Events, c \in Conns :
    /\ evs[e].pc = "done" /\ evs[e].calls # <<>>
    /\ c \in MembersAtStart(e) \ MembersAtEnd(e)
    /\ conn[c] = "closed"
    /\ ~UsersHas(users, c)

\* C13: an 'update-languages' event of a connection that is not a member
\* changes no record and emits nothing; of a member it changes the
\* targetLanguage of that member's record and nothing else in the store.
C13_UpdateFrame ==
  [][\A c \in Conns, l \in Langs : OnUpdateLanguages(c, l) =>
       IF UsersHas(users, c)
       THEN /\ Len(users') = Len(users)
            /\ \A i \in 1..Len(users) :
                 users'[i] = IF users[i].id = c
                             THEN [users[i] EXCEPT !.targetLanguage = l]
                             ELSE users[i]
       ELSE users' = users /\ inbox' = inbox /\ room' = room
    ]_vars

\* a member changed its language (bob joins with "fr") next to another
\* member whose language differs
C13_Witness ==
  \E c, d \in Conns :
    /\ c # d /\ UsersHas(users, c) /\ UsersHas(users, d)
    /\ applied[c].joined
    /\ UsersGet(users, c).targetLanguage = "es"
    /\ applied[c].name = <<"bob">>
    /\ UsersGet(users, d).targetLanguage # "es"

\* the translation events in the inboxes, as <<connection, position>>
TranslationEvents ==
  UNION { { <<c, i>> : i \in { j \in 1..Len(inbox[c]) :
                                  inbox[c][j].type = "translation" } } :
          c \in Conns }

\* C14: a translation event is received by the member it was built for and
\* by no other connection: every translation event in a connection's inbox
\* was built for that connection, and the payload built for a member from a
\* speech event exists once.
C14_PrivateChannel ==
  /\ \A x \in TranslationEvents : inbox[x[1]][x[2]].to = x[1]
  /\ \A x, y \in TranslationEvents :
       ( /\ inbox[x[1]][x[2]].ev = inbox[y[1]][y[2]].ev
         /\ inbox[x[1]][x[2]].to = inbox[y[1]][y[2]].to ) => x = y

\* one speech event fanned out to two members with different languages,
\* each holding the payload in its own language only
C14_Witness ==
  \E e \in Events, c, d \in Conns :
    /\ evs[e].pc = "done" /\ evs[e].isFinal
    /\ c # d
    /\ Cardinality(Derived(c, e)) = 1 /\ Cardinality(Derived(d, e)) = 1
    /\ \A i \in Derived(c, e) : inbox[c][i].targetLanguage = "es"
    /\ \A i \in Derived(d, e) : inbox[d][i].targetLanguage = "fr"

\* the positions of the roster-carrying events in connection c's inbox
Rosters(c) ==
  { i \in 1..Len(inbox[c]) : inbox[c][i].type # "translation" }

\* C15: roster consistency per recipient. In the order a connection
\* receives them, a roster at or after the user-joined notice of member x
\* contains x unless a user-left notice for x came in between; and the
\* roster a member received last is the membership store as it is now.
C15_RosterOrder ==
  \A c \in Conns :
    /\ \A i, j \in Rosters(c) :
         ( /\ i <= j
           /\ inbox[c][i].type = "user-joined"
           /\ inbox[c][i].user.id \notin UserIds(inbox[c][j].users) )
         => \E k \in Rosters(c) :
              /\ i < k /\ k <= j
              /\ inbox[c][k].type = "user-left"
              /\ inbox[c][k].userId = inbox[c][i].user.id
    /\ UsersHas(users, c) =>
         /\ Rosters(c) # {}
         /\ \A i \in Rosters(c) :
              (\A j \in Rosters(c) : j <= i) => inbox[c][i].users = users

\* a member that saw another member join and leave and then a third join
C15_Witness ==
  \E c \in Conns : \E i, j, k \in Rosters(c) :
    /\ i < j /\ j < k
    /\ inbox[c][i].type = "user-joined" /\ inbox[c][i].user.id # c
    /\ inbox[c][j].type = "user-left"
    /\ inbox[c][j].userId = inbox[c][i].user.id
    /\ inbox[c][k].type = "user-joined"
    /\ UsersHas(users, c)

\* the speech events whose fan-out runs in the step
FansOutNow(e) ==
  /\ e \in 1..Len(evs') /\ evs'[e].pc = "done"
  /\ (e <= Len(evs) => evs[e].pc # "done")

\* C16: after a member has disconnected it receives nothing more, a fan-out
\* that runs afterwards (its translations pending since before or not) does
\* not count it among the members it emits to, and the disconnect of a
\* member gives every member that remains its one user-left notice.
C16_AfterDisconnect ==
  /\ [](\A c, b \in Conns : Cardinality(LeftNotices(c, b)) <= 1)
  /\ [][\A b \in Conns :
          /\ conn[b] = "closed" =>
               /\ inbox'[b] = inbox[b]
               /\ \A e \in 1..MaxSpeech :
                    FansOutNow(e) => b \notin UserIds(evs'[e].usersAtEnd)
          /\ (OnDisconnect(b) /\ UsersHas(users, b)) =>
               \A c \in UserIds(users) \ {b} :
                 /\ LeftNotices(c, b) = {}
                 /\ Cardinality(LeftNotices(c, b)') = 1
                 /\ UsersHas(users', c)
       ]_vars

\* B left while a fan-out that would have reached it was pending; the
\* fan-out has run since, B got no event of it, and the sender holds the
\* one user-left notice for B
C16_Witness ==
  \E e \in Events, b \in Conns :
    /\ evs[e].pc = "done" /\ evs[e].calls # <<>>
    /\ b \in MembersAtStart(e) \ MembersAtEnd(e)
    /\ b # evs[e].sender
    /\ conn[b] = "closed"
    /\ Derived(b, e) = {}
    /\ UsersHas(users, evs[e].sender)
    /\ Cardinality(LeftNotices(evs[e].sender, b)) = 1

\* C17: translation calls and speech are made for final transcripts only:
\* by the relay's speech handler, by the speaking client's transcript
\* handler and by the receiving client's auto-speak.
C17_FinalOnly ==
  /\ \A e \in Events : evs[e].calls # <<>> => evs[e].isFinal
  /\ \A i \in 1..Len(transcripts) :
       transcripts[i].translated => transcripts[i].isFinal
  /\ \A k \in 1..Len(tts) : tts[k].forced \/ tts[k].isFinal

\* the events connection d receives in the step
Received(d) == SubSeq(inbox'[d], Len(inbox[d]) + 1, Len(inbox'[d]))

\* the user-joined notices about connection c in connection d's inbox
JoinNotices(d, c) ==
  { i \in 1..Len(inbox[d]) :
      inbox[d][i].type = "user-joined" /\ inbox[d][i].user.id = c }

\* C18 as claimed: the user-joined notice of a join goes to every member
\* except the new member, so no connection holds a user-joined notice about
\* itself.
C18_JoinNoticeToOthers ==
  \A c \in Conns : JoinNotices(c, c) = {}

\* C18 as the code has it: a join gives every member, the new member
\* included, one user-joined notice about the new member, then the new
\* member alone a users-list; both rosters contain the new member; other
\* connections receive nothing.
C18_JoinNotice ==
  [][\A c \in Conns, p \in JoinPayloads : OnJoin(c, p) =>
       \A d \in Conns :
         LET new == Received(d)
         IN IF d = c
            THEN /\ Len(new) = 2
                 /\ new[1].type = "user-joined" /\ new[1].user.id = c
                 /\ c \in UserIds(new[1].users)
                 /\ new[2].type = "users-list"
                 /\ c \in UserIds(new[2].users)
                 /\ new[2].users = users'
            ELSE IF UsersHas(users, d)
            THEN /\ Len(new) = 1
                 /\ new[1].type = "user-joined" /\ new[1].user.id = c
                 /\ c \in UserIds(new[1].users)
            ELSE new = <<>>
    ]_vars

\* a new member holds the notice about itself and then its roster, next to
\* an earlier member that holds the notice about the new member
C18_Witness ==
  \E c, d \in Conns :
    /\ c # d /\ UsersHas(users, c) /\ UsersHas(users, d)
    /\ JoinNotices(d, c) # {} /\ JoinNotices(c, d) = {}
    /\ Len(inbox[c]) = 2
    /\ inbox[c][1].type = "user-joined" /\ inbox[c][1].user.id = c
    /\ inbox[c][2].type = "users-list"
    /\ c \in UserIds(inbox[c][2].users) /\ d \in UserIds(inbox[c][2].users)

\* a speech handler of the running process is at an await
Pending == Serving /\ \E e \in Events : evs[e].pc \in {"await", "stalled"}

\* C19: membership operations are not blocked by translation. While a
\* speech handler has a translation call pending, the join,
\* update-languages and disconnect events of every open connection can be
\* handled (nothing holds the store), and the step that handles one leaves
\* its effect in the store at once.
C19_NotBlocked ==
  /\ []((Pending /\ nEvents < MaxEvents) =>
          \A c \in Conns : conn[c] = "open" =>
            /\ \A p \in JoinPayloads : ENABLED OnJoin(c, p)
            /\ \A l \in Langs : ENABLED OnUpdateLanguages(c, l)
            /\ ENABLED OnDisconnect(c))
  /\ [][Pending =>
          \A c \in Conns :
            /\ \A p \in JoinPayloads : OnJoin(c, p) =>
                 /\ UsersHas(users', c)
                 /\ UsersGet(users', c).targetLanguage = p.targetLanguage
            /\ \A l \in Langs : (OnUpdateLanguages(c, l) /\ UsersHas(users, c)) =>
                 UsersGet(users', c).targetLanguage = l
            /\ OnDisconnect(c) => ~UsersHas(users', c)
       ]_vars

\* while the translation call of a speech event is pending, a connection
\* has joined
C19_Witness ==
  \E e \in Events :
    /\ evs[e].pc = "await"
    /\ UserIds(users) \ UserIds(evs[e].usersAtStart) # {}

\* C20: no inbound event puts the gateway into an error state: whatever
\* payload a join, update-languages or speech event carries (fields missing,
\* or no payload object), no error leaves a handler uncaught.
C20_NoErrorState == escaped = <<>>

\* C21: between two calls of clearSpokenTexts, speakText starts playback
\* for a given text at most once, also when two speakText calls for the same
\* text overlap (speakTextForced is left out: it plays whatever the cache)
C21_PlaysOnce ==
  \A j, k \in 1..Len(tts) :
    ( /\ j # k
      /\ ~tts[j].forced /\ ~tts[k].forced
      /\ tts[j].text = tts[k].text
      /\ tts[j].played /\ tts[k].played )
    => tts[j].playedIn # tts[k].playedIn

\* C30: a text is in the spoken cache only if its audio played: once the
\* speakText calls for it have failed or ended without playing a chunk, it
\* is not in the cache (so a later speakText call requests audio again)
C30_SpokenOnlyIfPlayed ==
  \A key \in spokenTexts :
    \E k \in 1..Len(tts) :
      /\ ~tts[k].forced
      /\ CacheKey(tts[k].text, tts[k].language) = key
      /\ tts[k].played \/ tts[k].pc = "requested"

\* C22: for a final speech event, a recipient whose targetLanguage differs
\* from the source language receives translatedText equal to originalText
\* only if a translation call into that language was issued for the event
\* and failed (members that joined or changed language meanwhile included)
C22_FallbackOnlyAfterFailure ==
  \A c \in Conns : \A i \in 1..Len(inbox[c]) :
    ( /\ inbox[c][i].type = "translation"
      /\ inbox[c][i].isFinal
      /\ inbox[c][i].targetLanguage # SourceLanguage
      /\ inbox[c][i].translatedText = inbox[c][i].originalText )
    => inbox[c][i].targetLanguage \in CallsEnded(inbox[c][i].ev, "failed")

\* C23: no connection receives a translation event naming sender X after
\* it has received the user-left notice for X
C23_NothingAfterLeft ==
  \A c \in Conns : \A i, j \in 1..Len(inbox[c]) :
    ( /\ i < j
      /\ inbox[c][i].type = "user-left"
      /\ inbox[c][j].type = "translation" )
    => inbox[c][j].userId # inbox[c][i].userId

\* C24: the user-joined notice for a connection is broadcast exactly once
\* between its connect and its disconnect: the room never holds more than
\* one user-joined notice about the page's connection, whatever the page
\* does after its initial join (a change of target language included)
C24_JoinedOnce ==
  \A d \in Conns : Cardinality(JoinNotices(d, PageConn)) <= 1

\* C25: the speaking client emits its speech events in the order in which
\* the speech-to-text session produced the transcripts
C25_TranscriptOrder ==
  \A j, k \in 1..Len(speechOut) :
    j < k => speechOut[j].transcript < speechOut[k].transcript

\* C26: a failure of the speaker's own display translation does not stop the
\* transcript from reaching the room: on a joined and connected client every
\* non-blank transcript whose handler has ended was emitted as a speech event
C26_EmittedDespiteFailure ==
  (isJoined /\ isConnected) =>
    \A i \in 1..Len(transcripts) :
      transcripts[i].pc \in {"done", "failed"} =>
        \E j \in 1..Len(speechOut) : speechOut[j].transcript = i

\* C27: a connection that has connected but never joined is invisible to the
\* room: it is not in the membership store nor in the room, it has received
\* no translation event and no user-joined, user-left or users-list
\* broadcast, and its disconnect leaves the store, the room, the speech
\* handlers and every connection's received events as they were.
C27_NeverJoinedInvisible ==
  /\ [](\A c \in Conns :
         ~applied[c].joined =>
           /\ ~UsersHas(users, c)
           /\ c \notin room
           /\ inbox[c] = <<>>)
  /\ [][\A d \in Conns :
          (OnDisconnect(d) /\ ~applied[d].joined) =>
            /\ users' = users
            /\ room' = room
            /\ evs' = evs
            /\ inbox' = inbox]_vars

\* a connection that never joined has disconnected, while a member of the
\* room holds a translation event and roster events
C27_Witness ==
  \E d \in Conns :
    /\ ~applied[d].joined
    /\ conn[d] = "closed"
    /\ applied[d].closes > 0
    /\ \E c \in Conns \ {d} :
         /\ UsersHas(users, c)
         /\ \E e \in Events : Derived(c, e) # {}
         /\ \E i \in 1..Len(inbox[c]) : inbox[c][i].type = "user-joined"

C28_ClientWitness ==
  /\ isJoined /\ isConnected
  /\ \E i \in 1..Len(transcripts) : Trim(transcripts[i].text) = <<>>

\* C29: initialisation is idempotent: however often the API route is
\* requested one server is created and the connection handler is registered
\* once, so a connection has one listener per event; and a hook instance
\* creates at most one socket however often its effect runs.
C29_InitIdempotent ==
  /\ ioServers <= 1
  /\ connHandlers <= 1
  /\ apiCalls > 0 => (serverIo /\ ioServers = 1 /\ connHandlers = 1)
  /\ \A c \in Conns : conn[c] # "none" => ListenersPerEvent = 1
  /\ clientSockets <= 1
  /\ hookPc = "created" => clientSockets = 1

\* the API route was requested three times and the effect ran four times;
\* the hook's socket and another client's are connected
C29_Witness ==
  /\ apiCalls = MaxApiCalls
  /\ effectRuns = MaxEffectRuns
  /\ clientSockets = 1
  /\ conn[PageConn] = "open"
  /\ \E c \in Conns \ {PageConn} : conn[c] = "open"

====
